---- MODULE Spec2Model ----
(***************************************************************************)
(* Model of the guitar chord recognizer (src/recognizer.py, driven by the  *)
(* menu loop of src/main.py) and of the transform of src/dft.py.           *)
(*                                                                         *)
(* Floats are modelled as exact rationals <<num, den>> in lowest terms;    *)
(* frequencies and magnitudes are drawn from small sets of integers.       *)
(* A recording is modelled by the magnitude spectrum of its analysis       *)
(* window: a function from a few peak bins to magnitudes, every other bin  *)
(* of the window having magnitude 0.                                       *)
(*                                                                         *)
(* Specifications:                                                         *)
(*   Spec          a session of the menu loop                              *)
(*   SpecScenario  a session that starts with no library file and is given *)
(*                 recordings of two peaks                                 *)
(*   SpecLibrary   save_library, then a new recognizer on the same file    *)
(*   SpecScore     compare_features on bounded feature lists               *)
(*   SpecExtract   extract_features on buffers of several lengths          *)
(*   SpecDft       dft and analyze_audio_chunk on short buffers            *)
(*   SpecDetect    the chord-sequence detector on a library of two chords  *)
(*   SpecSongs     a song recommender and find_songs                       *)
(***************************************************************************)
EXTENDS Integers, Sequences, FiniteSets, TLC

VARIABLES
    chord_library,   \* self.chord_library: insertion-ordered dict, as a sequence of entries
    library_file,    \* content of chord_library.json (NoFile when it does not exist)
    pc,              \* where the process is: "menu", "detect", "crashed"
    detected_chords, \* local list of detect_chord_sequence
    sequence_file,   \* content of chord_sequence.json (NoFile when it does not exist)
    op,              \* last operation that ran
    arg,             \* chord name the last operation was given (None when it takes none)
    audio,           \* what record_audio returned to the last operation (NoAudio when nothing)
    message,         \* last status line the last operation printed
    result,          \* chord name the last operation returned or detected (None when none)
    listed,          \* chord names the last list_chords printed, in order
    features1,       \* first argument of compare_features (scoring specification)
    features2,       \* second argument of compare_features (scoring specification)
    score,           \* value compare_features returned (NoScore before the call)
    samples,         \* argument of dft and analyze_audio_chunk (transform specification)
    spectrum,        \* list dft returned
    analysis,        \* dict analyze_audio_chunk returned (NoAnalysis when it returned none)
    audio_signal,    \* argument of extract_features (extraction specification)
    features,        \* list extract_features returned
    raised,          \* exception that left the last call ("" when it returned)
    songs,           \* SongRecommender.songs: list of songs as loaded
    learned_chords,  \* SongRecommender.learned_chords: set of chord names
    playable,        \* list get_playable_songs returned
    almost_playable  \* list of (song, missing) get_almost_playable_songs returned

vars == <<chord_library, library_file, pc, detected_chords, sequence_file,
          op, arg, audio, message, result, listed, features1, features2, score,
          samples, spectrum, analysis, audio_signal, features, raised,
          songs, learned_chords, playable, almost_playable>>

progVars == <<chord_library, library_file, pc, detected_chords, sequence_file,
              op, arg, audio, message, result, listed>>

scoreVars == <<features1, features2, score>>

dftVars == <<samples, spectrum, analysis>>

extractVars == <<audio_signal, features>>

songVars == <<songs, learned_chords, playable, almost_playable>>

\* Variables of the calls made outside a session of the menu loop.
callVars == <<scoreVars, dftVars, extractVars, raised, songVars>>

\* Python's None, where a chord name is expected.
None == "None"

\* A file that does not exist, a file holding the JSON text json.dump wrote,
\* and a file whose content json.load cannot parse.
NoFile == [exists |-> FALSE, parses |-> FALSE, text |-> <<>>]

File(text) == [exists |-> TRUE, parses |-> TRUE, text |-> text]

CorruptFile == [exists |-> TRUE, parses |-> FALSE, text |-> <<>>]

\* The value of score before compare_features has returned.
NoScore == <<>>

\* The values of the variables of a call that has not been made.
NoAnalysis ==
    [processed_samples |-> -1, peak_frequency_hz |-> <<0, 1>>,
     peak_magnitude |-> <<0, 1>>, dft_magnitudes |-> <<>>]

NoBuffer == [len |-> 0, mags |-> <<>>]

IdleSongs ==
    /\ songs = <<>>
    /\ learned_chords = {}
    /\ playable = <<>>
    /\ almost_playable = <<>>

IdleCalls ==
    /\ IdleSongs
    /\ samples = <<>>
    /\ spectrum = <<>>
    /\ analysis = NoAnalysis
    /\ audio_signal = NoBuffer
    /\ features = <<>>
    /\ raised = ""

-----------------------------------------------------------------------------
(* Bounds of the model *)

MaxMag == 2        \* magnitudes range over 0..MaxMag
MaxPad == 6        \* a scored list has up to MaxPad leading entries before its varied tail
MaxBase == 1       \* length of the varied tail of a scored list
MaxPeaks == 2      \* a recording has at most MaxPeaks bins of non-zero magnitude
MaxDetected == 1   \* the sequence detector is followed until MaxDetected chords are detected
MaxEntries == 2    \* a library that is saved and loaded has up to MaxEntries chords
MaxAmp == 1        \* samples given to dft range over -MaxAmp..MaxAmp
MaxBed == 11       \* a buffer has up to MaxBed loud bins besides the bins at the band limits
MaxSequence == 4   \* a detector session on the E/Em library is followed until MaxSequence chords are detected

-----------------------------------------------------------------------------
(* Program constants *)

sample_rate == 22050
duration == 2
tolerance == 50
top_n == 10
compare_n == 6
band_low == 80
band_high == 1500
chunk_size == 512

-----------------------------------------------------------------------------
(* Exact rational arithmetic standing for Python floats *)

Abs(x) == IF x < 0 THEN -x ELSE x

Min2(x, y) == IF x < y THEN x ELSE y

Max2(x, y) == IF x > y THEN x ELSE y

RECURSIVE GCD(_, _)
GCD(x, y) == IF y = 0 THEN x ELSE GCD(y, x % y)

Rat(n, d) ==
    LET g == GCD(Abs(n), Abs(d))
        s == IF d < 0 THEN -1 ELSE 1
    IN  <<(s * n) \div g, (s * d) \div g>>

RatAdd(p, q) == Rat(p[1] * q[2] + q[1] * p[2], p[2] * q[2])

RatMul(p, q) == Rat(p[1] * q[1], p[2] * q[2])

RatLess(p, q) == p[1] * q[2] < q[1] * p[2]

RatLeq(p, q) == p[1] * q[2] <= q[1] * p[2]

RatMax(p, q) == IF RatLess(p, q) THEN q ELSE p

Zero == Rat(0, 1)

One == Rat(1, 1)

threshold == Rat(3, 10)

Slice(s, n) == SubSeq(s, 1, Min2(n, Len(s)))

-----------------------------------------------------------------------------
(* compare_features *)

\* A (freq, mag) pair of a feature list.
Feature(f, m) == [kind |-> "tuple", freq |-> f, mag |-> m]

match(f1, f2) ==
    LET freq_similarity == Rat(tolerance - Abs(f1.freq - f2.freq), tolerance)
        mag_similarity == IF Max2(f1.mag, f2.mag) > 0
                          THEN Rat(Min2(f1.mag, f2.mag), Max2(f1.mag, f2.mag))
                          ELSE Zero
    IN  RatMul(freq_similarity, mag_similarity)

RECURSIVE inner_loop(_, _, _, _)
inner_loop(f1, fs2, j, best_match) ==
    IF j > Len(fs2) THEN best_match
    ELSE inner_loop(f1, fs2, j + 1,
                    IF Abs(f1.freq - fs2[j].freq) < tolerance
                    THEN RatMax(best_match, match(f1, fs2[j]))
                    ELSE best_match)

RECURSIVE outer_loop(_, _, _, _)
outer_loop(fs1, fs2, i, sc) ==
    IF i > Len(fs1) THEN sc
    ELSE outer_loop(fs1, fs2, i + 1, RatAdd(sc, inner_loop(fs1[i], fs2, 1, Zero)))

\* Variants of compare_features with one plausible slip each.
compare_features_div_len(fs1, fs2) ==
    IF fs1 = <<>> \/ fs2 = <<>> THEN Zero
    ELSE RatMul(outer_loop(Slice(fs1, compare_n), Slice(fs2, compare_n), 1, Zero),
                Rat(1, Len(Slice(fs1, compare_n))))

compare_features_no_slice(fs1, fs2) ==
    IF fs1 = <<>> \/ fs2 = <<>> THEN Zero
    ELSE RatMul(outer_loop(fs1, Slice(fs2, compare_n), 1, Zero), Rat(1, compare_n))

compare_features_vacuous(fs1, fs2) ==
    IF fs2 = <<>> THEN Zero
    ELSE IF fs1 = <<>> THEN One
    ELSE RatMul(outer_loop(Slice(fs1, compare_n), Slice(fs2, compare_n), 1, Zero),
                Rat(1, compare_n))

compare_features_scan_all(fs1, fs2) ==
    IF fs1 = <<>> \/ fs2 = <<>> THEN Zero
    ELSE RatMul(outer_loop(Slice(fs1, compare_n), fs2, 1, Zero), Rat(1, compare_n))

compare_features_seven(fs1, fs2) ==
    IF fs1 = <<>> \/ fs2 = <<>> THEN Zero
    ELSE RatMul(outer_loop(Slice(fs1, compare_n + 1), Slice(fs2, compare_n + 1), 1, Zero),
                Rat(1, compare_n))

compare_features(fs1, fs2) ==
    IF fs1 = <<>> \/ fs2 = <<>> THEN Zero
    ELSE RatMul(outer_loop(Slice(fs1, compare_n), Slice(fs2, compare_n), 1, Zero),
                Rat(1, compare_n))

-----------------------------------------------------------------------------
(* Recordings and extract_features *)

ChordNames == {"Am", "C", "C/G"}

\* Chord names that contain the path separator "/" (slash chords).
SlashNames == {"C/G"}

\* record_audio returns int(duration * sample_rate) samples, or None on error.
audio_len == duration * sample_rate

target_samples == sample_rate \div 2

\* max(1, len(audio_signal) // target_samples), for a buffer of n samples.
downsample_factor_of(n) == Max2(1, n \div target_samples)

downsample_factor == downsample_factor_of(audio_len)

\* len(audio_signal[::downsample_factor][:target_samples])
window_len_of(n) ==
    Min2(target_samples, (n + downsample_factor_of(n) - 1) \div downsample_factor_of(n))

window_len == window_len_of(audio_len)

\* The transform of the recognizer rejects a window of no samples.
manual_dft_raises(n) == window_len_of(n) = 0

\* Length of the magnitude spectrum of the analysis window.
num_bins_of(n) == window_len_of(n) \div 2

num_bins == num_bins_of(audio_len)

\* Bins that may carry energy in a modelled recording: 80 Hz, 82 Hz and 100 Hz.
PeakBins == {40, 41, 50}

\* Magnitudes a bin of a modelled recording may have: the 100 Hz bin is louder
\* than the others, so that sorting by magnitude reorders the bins.
Levels(b) == IF b = 50 THEN {0, 2} ELSE {0, 1}

Recordings ==
    {s \in [PeakBins -> {0, 1, 2}] :
        /\ \A b \in PeakBins : s[b] \in Levels(b)
        /\ Cardinality({b \in PeakBins : s[b] > 0}) <= MaxPeaks}

\* What record_audio returns: the recording, or None when recording raised.
NoAudio == [b \in PeakBins |-> -1]

AudioInputs == Recordings \cup {NoAudio}

\* magnitudes[i]: the spectrum of a buffer is given by the magnitudes of a few
\* of its bins, every other bin having magnitude 0.
magnitudes(signal, i) == IF i \in DOMAIN signal THEN signal[i] ELSE 0

\* i * self.sample_rate / len(audio_downsampled); exact for the buffer lengths
\* used (2 Hz per bin for a recording of audio_len samples).
bin_freq_of(n, i) == (i * sample_rate) \div window_len_of(n)

bin_freq(i) == bin_freq_of(audio_len, i)

\* Variant of the sort without reverse=True: the smaller magnitude first.
RECURSIVE loud_bins_ascending(_, _)
loud_bins_ascending(signal, bins) ==
    IF bins = {} THEN <<>>
    ELSE LET first == CHOOSE i \in bins : \A j \in bins :
                          \/ magnitudes(signal, i) < magnitudes(signal, j)
                          \/ (magnitudes(signal, j) = magnitudes(signal, i) /\ i <= j)
         IN  <<first>> \o loud_bins_ascending(signal, bins \ {first})

\* freq_bins.sort(key=lambda x: x[1], reverse=True) is a stable sort, descending
\* by magnitude: the bins of non-zero magnitude come first, the larger magnitude
\* first and the lower bin first among equals, and the bins of zero magnitude
\* follow in bin order.  Only the first top_n bins of that order are used.
RECURSIVE loud_bins(_, _)
loud_bins(signal, bins) ==
    IF bins = {} THEN <<>>
    ELSE LET first == CHOOSE i \in bins : \A j \in bins :
                          \/ magnitudes(signal, j) < magnitudes(signal, i)
                          \/ (magnitudes(signal, j) = magnitudes(signal, i) /\ i <= j)
         IN  <<first>> \o loud_bins(signal, bins \ {first})

\* The first k bins of zero magnitude from bin i on, of a spectrum of bins entries.
RECURSIVE silent_bins(_, _, _, _)
silent_bins(bins, signal, i, k) ==
    IF k = 0 \/ i >= bins THEN <<>>
    ELSE IF magnitudes(signal, i) = 0
         THEN <<i>> \o silent_bins(bins, signal, i + 1, k - 1)
         ELSE silent_bins(bins, signal, i + 1, k)

sorted_top(n, signal) ==
    Slice(loud_bins(signal, {b \in DOMAIN signal :
                                 b < num_bins_of(n) /\ magnitudes(signal, b) > 0})
              \o silent_bins(num_bins_of(n), signal, 0, top_n),
          top_n)

\* Variant of the band filter that keeps the band limits themselves.
in_band_inclusive(f) == f.freq >= band_low /\ f.freq <= band_high

in_band(f) == f.freq > band_low /\ f.freq < band_high

\* extract_features for a buffer of n samples whose window has the spectrum signal.
extract_features_of(n, signal) ==
    LET sorted == sorted_top(n, signal)
        top_peaks == [k \in 1..Len(sorted) |->
                          Feature(bin_freq_of(n, sorted[k]), magnitudes(signal, sorted[k]))]
    IN  SelectSeq(top_peaks, in_band)

\* extract_features for a recording record_audio returned.
extract_features(signal) == extract_features_of(audio_len, signal)

-----------------------------------------------------------------------------
(* The chord library: an insertion-ordered dict, and its JSON file *)

Names(lib) == {lib[i].name : i \in 1..Len(lib)}

Lookup(lib, name) == lib[CHOOSE i \in 1..Len(lib) : lib[i].name = name].features

\* Variants of the dict assignment with one plausible slip each.
dict_set_merge(lib, name, fs) ==
    IF name \in Names(lib)
    THEN [i \in 1..Len(lib) |-> IF lib[i].name = name
                                THEN [name |-> name, features |-> lib[i].features \o fs]
                                ELSE lib[i]]
    ELSE Append(lib, [name |-> name, features |-> fs])

dict_set_reset(lib, name, fs) == <<[name |-> name, features |-> fs]>>

dict_set_move_to_end(lib, name, fs) ==
    Append(SelectSeq(lib, LAMBDA e : e.name # name), [name |-> name, features |-> fs])

\* self.chord_library[chord_name] = features
dict_set(lib, name, fs) ==
    IF name \in Names(lib)
    THEN [i \in 1..Len(lib) |-> IF lib[i].name = name
                                THEN [name |-> name, features |-> fs]
                                ELSE lib[i]]
    ELSE Append(lib, [name |-> name, features |-> fs])

\* Variant of json_dump that writes the peaks of a signature last to first.
json_dump_reversed(lib) ==
    [i \in 1..Len(lib) |->
        [name |-> lib[i].name,
         features |-> [j \in 1..Len(lib[i].features) |->
                          [lib[i].features[Len(lib[i].features) + 1 - j]
                               EXCEPT !.kind = "array"]]]]

\* json.dump writes the dict in order; a tuple is written as an array.
json_dump(lib) ==
    [i \in 1..Len(lib) |->
        [name |-> lib[i].name,
         features |-> [j \in 1..Len(lib[i].features) |->
                          [lib[i].features[j] EXCEPT !.kind = "array"]]]]

\* json.load reads an object into a dict in order; an array is read as a list.
json_load(text) ==
    [i \in 1..Len(text) |->
        [name |-> text[i].name,
         features |-> [j \in 1..Len(text[i].features) |->
                          [text[i].features[j] EXCEPT !.kind = "list"]]]]

\* json.load raises JSONDecodeError on text that is not JSON; load_library has
\* no handler and __init__ calls it last, so the exception leaves the constructor.
load_raises(file) == file.exists /\ ~file.parses

\* self.chord_library after load_library: it stays {} when the file does not
\* exist, and also when json.load raised before the assignment.
load_library(file) == IF file.exists /\ file.parses THEN json_load(file.text) ELSE <<>>

\* plt.savefig(os.path.join("dft_plots", f"{chord_name}_{ts}.png")) raises when
\* the chord name holds a path separator: the directory it names does not exist.
plot_raises(name) == name \in SlashNames

\* A library file left by an earlier session that trained "Am".
EarlierRecording == [b \in PeakBins |-> IF b = 41 THEN 1 ELSE IF b = 50 THEN 2 ELSE 0]

InitialFiles ==
    {NoFile,
     CorruptFile,
     File(json_dump(<<[name |-> "Am", features |-> extract_features(EarlierRecording)]>>))}

\* ChordRecognizer(sample_rate=22050, duration=2.0) in main(): the state when
\* the constructor has returned, or has been left by the exception of load_library.
Init ==
    /\ library_file \in InitialFiles
    /\ chord_library = load_library(library_file)
    /\ pc = IF load_raises(library_file) THEN "crashed" ELSE "menu"
    /\ detected_chords = <<>>
    /\ sequence_file = NoFile
    /\ op = "init"
    /\ arg = None
    /\ audio = NoAudio
    /\ message = IF load_raises(library_file) THEN "Traceback" ELSE ""
    /\ result = None
    /\ listed = <<>>
    /\ features1 = <<>>
    /\ features2 = <<>>
    /\ score = NoScore
    /\ IdleCalls

-----------------------------------------------------------------------------
(* Operations of the recognizer *)

\* Variant of the matching loop that also replaces the best match on an equal score.
RECURSIVE match_loop_last_tie(_, _, _, _, _)
match_loop_last_tie(fs, lib, i, best_match, best_score) ==
    IF i > Len(lib) THEN [best_match |-> best_match, best_score |-> best_score]
    ELSE LET sc == compare_features(fs, lib[i].features)
         IN  IF RatLeq(best_score, sc)
             THEN match_loop_last_tie(fs, lib, i + 1, lib[i].name, sc)
             ELSE match_loop_last_tie(fs, lib, i + 1, best_match, best_score)

\* The matching loop of recognize_chord and detect_chord_sequence.
RECURSIVE match_loop(_, _, _, _, _)
match_loop(fs, lib, i, best_match, best_score) ==
    IF i > Len(lib) THEN [best_match |-> best_match, best_score |-> best_score]
    ELSE LET sc == compare_features(fs, lib[i].features)
         IN  IF RatLess(best_score, sc)
             THEN match_loop(fs, lib, i + 1, lib[i].name, sc)
             ELSE match_loop(fs, lib, i + 1, best_match, best_score)

\* Variant of train_chord that does not check for an empty feature list.
train_chord_store_empty(chord_name, rec) ==
    /\ pc = "menu"
    /\ op' = "train_chord"
    /\ arg' = chord_name
    /\ audio' = rec
    /\ result' = None
    /\ listed' = <<>>
    /\ UNCHANGED <<detected_chords, sequence_file, callVars>>
    /\ IF rec = NoAudio
       THEN /\ message' = "Recording failed - chord not saved"
            /\ UNCHANGED <<chord_library, library_file, pc>>
       ELSE LET fs == extract_features(rec)
            IN  IF FALSE
                THEN /\ message' = "No features extracted - recording may be silent"
                     /\ UNCHANGED <<chord_library, library_file, pc>>
                ELSE /\ chord_library' = dict_set(chord_library, chord_name, fs)
                     /\ IF plot_raises(chord_name)
                        THEN /\ message' = "Traceback"
                             /\ pc' = "crashed"
                             /\ UNCHANGED library_file
                        ELSE /\ message' = "Library saved"
                             /\ library_file' = File(json_dump(chord_library'))
                             /\ UNCHANGED pc

train_chord(chord_name, rec) ==
    /\ pc = "menu"
    /\ op' = "train_chord"
    /\ arg' = chord_name
    /\ audio' = rec
    /\ result' = None
    /\ listed' = <<>>
    /\ UNCHANGED <<detected_chords, sequence_file, callVars>>
    /\ IF rec = NoAudio
       THEN /\ message' = "Recording failed - chord not saved"
            /\ UNCHANGED <<chord_library, library_file, pc>>
       ELSE LET fs == extract_features(rec)
            IN  IF fs = <<>>
                THEN /\ message' = "No features extracted - recording may be silent"
                     /\ UNCHANGED <<chord_library, library_file, pc>>
                ELSE /\ chord_library' = dict_set(chord_library, chord_name, fs)
                     /\ IF plot_raises(chord_name)
                        THEN /\ message' = "Traceback"
                             /\ pc' = "crashed"
                             /\ UNCHANGED library_file
                        ELSE /\ message' = "Library saved"
                             /\ library_file' = File(json_dump(chord_library'))
                             /\ UNCHANGED pc

\* Variant of recognize_chord that takes the maximum of the scores without
\* checking that the library has entries.
recognize_chord_max_of_scores(rec) ==
    /\ pc = "menu"
    /\ op' = "recognize_chord"
    /\ arg' = None
    /\ audio' = rec
    /\ listed' = <<>>
    /\ UNCHANGED <<chord_library, library_file, detected_chords, sequence_file, callVars>>
    /\ pc' = IF chord_library = <<>> /\ rec # NoAudio THEN "crashed" ELSE pc
    /\ IF rec = NoAudio
       THEN /\ message' = "Recording failed"
            /\ result' = None
       ELSE IF chord_library = <<>>
       THEN /\ message' = "Traceback"
            /\ result' = None
       ELSE LET best == match_loop(extract_features(rec), chord_library, 1, None, Zero)
            IN  IF RatLess(threshold, best.best_score)
                THEN /\ message' = "Recognized chord"
                     /\ result' = best.best_match
                ELSE /\ message' = "No confident match found"
                     /\ result' = None

recognize_chord(rec) ==
    /\ pc = "menu"
    /\ op' = "recognize_chord"
    /\ arg' = None
    /\ audio' = IF chord_library = <<>> THEN NoAudio ELSE rec
    /\ listed' = <<>>
    /\ UNCHANGED <<chord_library, library_file, pc, detected_chords, sequence_file, callVars>>
    /\ IF chord_library = <<>>
       THEN /\ message' = "No chords in library"
            /\ result' = None
       ELSE IF rec = NoAudio
       THEN /\ message' = "Recording failed"
            /\ result' = None
       ELSE LET best == match_loop(extract_features(rec), chord_library, 1, None, Zero)
            IN  IF RatLess(threshold, best.best_score)
                THEN /\ message' = "Recognized chord"
                     /\ result' = best.best_match
                ELSE /\ message' = "No confident match found"
                     /\ result' = None

list_chords ==
    /\ pc = "menu"
    /\ op' = "list_chords"
    /\ arg' = None
    /\ audio' = NoAudio
    /\ result' = None
    /\ message' = IF chord_library = <<>> THEN "No chords in library yet" ELSE "Chords in library"
    /\ listed' = [i \in 1..Len(chord_library) |-> chord_library[i].name]
    /\ UNCHANGED <<chord_library, library_file, pc, detected_chords, sequence_file, callVars>>

\* detect_chord_sequence up to its first prompt.
detect_chord_sequence ==
    /\ pc = "menu"
    /\ op' = "detect_chord_sequence"
    /\ arg' = None
    /\ audio' = NoAudio
    /\ result' = None
    /\ listed' = <<>>
    /\ detected_chords' = <<>>
    /\ IF chord_library = <<>>
       THEN /\ message' = "No chords in library"
            /\ UNCHANGED pc
       ELSE /\ message' = "CHORD SEQUENCE DETECTOR"
            /\ pc' = "detect"
    /\ UNCHANGED <<chord_library, library_file, sequence_file, callVars>>

\* Variant of choice == 'd' that also accepts a best score of exactly 0.3.
detect_record_at_threshold(rec) ==
    /\ pc = "detect"
    /\ op' = "detect"
    /\ arg' = None
    /\ audio' = rec
    /\ listed' = <<>>
    /\ UNCHANGED <<chord_library, library_file, pc, sequence_file, callVars>>
    /\ IF rec = NoAudio
       THEN /\ message' = "Recording failed - try again"
            /\ result' = None
            /\ UNCHANGED detected_chords
       ELSE LET best == match_loop(extract_features(rec), chord_library, 1, None, Zero)
            IN  IF RatLeq(threshold, best.best_score) /\ best.best_match # None
                THEN /\ detected_chords' = Append(detected_chords, best.best_match)
                     /\ message' = "Detected"
                     /\ result' = best.best_match
                ELSE /\ UNCHANGED detected_chords
                     /\ message' = "No confident match found"
                     /\ result' = None

\* choice == 'd': one pass of the loop that records and matches.
detect_record(rec) ==
    /\ pc = "detect"
    /\ op' = "detect"
    /\ arg' = None
    /\ audio' = rec
    /\ listed' = <<>>
    /\ UNCHANGED <<chord_library, library_file, pc, sequence_file, callVars>>
    /\ IF rec = NoAudio
       THEN /\ message' = "Recording failed - try again"
            /\ result' = None
            /\ UNCHANGED detected_chords
       ELSE LET best == match_loop(extract_features(rec), chord_library, 1, None, Zero)
            IN  IF RatLess(threshold, best.best_score) /\ best.best_match # None
                THEN /\ detected_chords' = Append(detected_chords, best.best_match)
                     /\ message' = "Detected"
                     /\ result' = best.best_match
                ELSE /\ UNCHANGED detected_chords
                     /\ message' = "No confident match found"
                     /\ result' = None

\* Variant of choice == 'd' that stores the features of a confident detection
\* as the new signature of the detected chord and saves the library.
detect_choice_d_adapting(rec) ==
    /\ pc = "detect"
    /\ Len(detected_chords) < MaxDetected
    /\ op' = "detect"
    /\ arg' = None
    /\ audio' = rec
    /\ listed' = <<>>
    /\ UNCHANGED <<pc, sequence_file, callVars>>
    /\ IF rec = NoAudio
       THEN /\ message' = "Recording failed - try again"
            /\ result' = None
            /\ UNCHANGED <<detected_chords, chord_library, library_file>>
       ELSE LET best == match_loop(extract_features(rec), chord_library, 1, None, Zero)
            IN  IF RatLess(threshold, best.best_score) /\ best.best_match # None
                THEN /\ detected_chords' = Append(detected_chords, best.best_match)
                     /\ chord_library' = dict_set(chord_library, best.best_match,
                                                  extract_features(rec))
                     /\ library_file' = File(json_dump(chord_library'))
                     /\ message' = "Detected"
                     /\ result' = best.best_match
                ELSE /\ UNCHANGED <<detected_chords, chord_library, library_file>>
                     /\ message' = "No confident match found"
                     /\ result' = None

\* choice == 'd', for a session of at most MaxDetected detections.
detect_choice_d(rec) ==
    /\ Len(detected_chords) < MaxDetected
    /\ detect_record(rec)

RECURSIVE unique_in_order(_, _)
unique_in_order(chords, unique_chords) ==
    IF chords = <<>> THEN unique_chords
    ELSE unique_in_order(Tail(chords),
                         IF \E k \in 1..Len(unique_chords) : unique_chords[k] = Head(chords)
                         THEN unique_chords
                         ELSE Append(unique_chords, Head(chords)))

\* choice == 's'
detect_choice_s ==
    /\ pc = "detect"
    /\ op' = "detect_save"
    /\ arg' = None
    /\ audio' = NoAudio
    /\ result' = None
    /\ listed' = <<>>
    /\ IF detected_chords # <<>>
       THEN /\ sequence_file' = File([total_recorded |-> Len(detected_chords),
                                      unique_chords |-> unique_in_order(detected_chords, <<>>),
                                      all_chords |-> detected_chords])
            /\ message' = "Saved chords"
       ELSE /\ message' = "No chords detected to save"
            /\ UNCHANGED sequence_file
    /\ pc' = "menu"
    /\ detected_chords' = <<>>
    /\ UNCHANGED <<chord_library, library_file, callVars>>

\* choice == 'q'
detect_choice_q ==
    /\ pc = "detect"
    /\ op' = "detect_quit"
    /\ arg' = None
    /\ audio' = NoAudio
    /\ result' = None
    /\ listed' = <<>>
    /\ message' = "Exiting without saving"
    /\ pc' = "menu"
    /\ detected_chords' = <<>>
    /\ UNCHANGED <<chord_library, library_file, sequence_file, callVars>>

\* any other choice
detect_choice_invalid ==
    /\ pc = "detect"
    /\ op' = "detect_invalid"
    /\ arg' = None
    /\ audio' = NoAudio
    /\ result' = None
    /\ listed' = <<>>
    /\ message' = "Invalid choice"
    /\ UNCHANGED <<chord_library, library_file, pc, detected_chords, sequence_file, callVars>>

Next ==
    \/ \E n \in ChordNames, a \in AudioInputs : train_chord(n, a)
    \/ \E a \in AudioInputs : recognize_chord(a)
    \/ list_chords
    \/ detect_chord_sequence
    \/ \E a \in AudioInputs : detect_choice_d(a)
    \/ detect_choice_s
    \/ detect_choice_q
    \/ detect_choice_invalid

Spec == Init /\ [][Next]_vars

-----------------------------------------------------------------------------
(* Scoring specification: compare_features applied to bounded feature lists *)

Mags == 0..MaxMag

\* Frequency of the entries of the varied tail.
TailFreqs == {100}

\* Frequencies of the leading entries: 150 is exactly tolerance away from the
\* tail frequency, 110 and 82 are within tolerance of it, the others are not.
PadFreqs == <<150, 110, 82, 196, 246, 330, 392, 440>>

Pad(k) == [i \in 1..k |-> Feature(PadFreqs[((i - 1) % Len(PadFreqs)) + 1] + 600 * ((i - 1) \div Len(PadFreqs)), MaxMag)]

RECURSIVE SeqsUpTo(_, _)
SeqsUpTo(S, n) ==
    IF n = 0 THEN {<<>>}
    ELSE LET shorter == SeqsUpTo(S, n - 1)
         IN  shorter \cup {Append(s, x) : s \in {t \in shorter : Len(t) = n - 1}, x \in S}

Tails == SeqsUpTo({Feature(f, m) : f \in TailFreqs, m \in Mags}, MaxBase)

FeatureLists == {Pad(k) \o t : k \in 0..MaxPad, t \in Tails}

InitProgIdle ==
    /\ chord_library = <<>>
    /\ library_file = NoFile
    /\ pc = "menu"
    /\ detected_chords = <<>>
    /\ sequence_file = NoFile
    /\ op = "init"
    /\ arg = None
    /\ audio = NoAudio
    /\ message = ""
    /\ result = None
    /\ listed = <<>>

InitScore ==
    /\ InitProgIdle
    /\ features1 \in FeatureLists
    /\ features2 \in FeatureLists
    /\ score = NoScore
    /\ IdleCalls

Compare ==
    /\ score = NoScore
    /\ score' = compare_features(features1, features2)
    /\ UNCHANGED <<features1, features2, progVars, dftVars, extractVars, raised, songVars>>

NextScore == Compare

SpecScore == InitScore /\ [][NextScore]_vars

-----------------------------------------------------------------------------
(* Persistence specification: save_library, then a new recognizer that loads *)
(* the same file                                                             *)

\* Feature lists train_chord can store: what extract_features returns for a
\* recording, when it is not empty.
Signatures == {extract_features(r) : r \in Recordings} \ {<<>>}

Entries == [name : ChordNames, features : Signatures]

\* Dicts of up to MaxEntries chords: no name occurs twice.
Libraries ==
    {lib \in SeqsUpTo(Entries, MaxEntries) :
        \A i, j \in 1..Len(lib) : lib[i].name = lib[j].name => i = j}

InitLibrary ==
    /\ chord_library \in Libraries
    /\ library_file = NoFile
    /\ pc = "menu"
    /\ detected_chords = <<>>
    /\ sequence_file = NoFile
    /\ op = "init"
    /\ arg = None
    /\ audio = NoAudio
    /\ message = ""
    /\ result = None
    /\ listed = <<>>
    /\ features1 = <<>>
    /\ features2 = <<>>
    /\ score = NoScore
    /\ IdleCalls

save_library ==
    /\ op # "save_library"
    /\ op' = "save_library"
    /\ library_file' = File(json_dump(chord_library))
    /\ message' = "Library saved"
    /\ UNCHANGED <<chord_library, pc, detected_chords, sequence_file, arg, audio,
                   result, listed, callVars>>

\* ChordRecognizer() constructed on the file the previous recognizer saved:
\* chord_library = {}, then load_library.
new_recognizer ==
    /\ op = "save_library"
    /\ op' = "load_library"
    /\ chord_library' = load_library(library_file)
    /\ message' = "Loaded chords from library"
    /\ UNCHANGED <<library_file, pc, detected_chords, sequence_file, arg, audio,
                   result, listed, callVars>>

NextLibrary == save_library \/ new_recognizer

SpecLibrary == InitLibrary /\ [][NextLibrary]_vars

-----------------------------------------------------------------------------
(* Transform specification: dft and analyze_audio_chunk of dft.py *)

\* Buffer lengths for which every cos(2*pi*k*n/N) is rational, so that the
\* squares of the magnitudes are computed exactly.
Lengths == {0, 1, 2, 3, 4}

Signals == UNION {[1..N -> -MaxAmp..MaxAmp] : N \in Lengths}

\* 2 * math.cos(2 * math.pi * t / N).
cos2(t, N) ==
    IF N = 4 THEN (IF t % 4 = 0 THEN 2 ELSE IF t % 4 = 2 THEN -2 ELSE 0)
    ELSE IF N = 3 THEN (IF t % 3 = 0 THEN 2 ELSE -1)
    ELSE IF N = 2 THEN (IF t % 2 = 0 THEN 2 ELSE -2)
    ELSE 2

\* 2 * math.sin(2 * math.pi * t / N) is sin2(t, N) times the square root of
\* root(N).
sin2(t, N) ==
    IF N = 4 THEN (IF t % 4 = 1 THEN 2 ELSE IF t % 4 = 3 THEN -2 ELSE 0)
    ELSE IF N = 3 THEN (IF t % 3 = 1 THEN 1 ELSE IF t % 3 = 2 THEN -1 ELSE 0)
    ELSE 0

root(N) == IF N = 3 THEN 3 ELSE 1

\* Twice real_part and imag_part after the terms n..N-1 have been added
\* (signal[n] of the code is sig[n + 1] here).
RECURSIVE real_part(_, _, _)
real_part(sig, k, n) ==
    IF n >= Len(sig) THEN 0
    ELSE sig[n + 1] * cos2(k * n, Len(sig)) + real_part(sig, k, n + 1)

RECURSIVE imag_part(_, _, _)
imag_part(sig, k, n) ==
    IF n >= Len(sig) THEN 0
    ELSE sig[n + 1] * sin2(k * n, Len(sig)) + imag_part(sig, k, n + 1)

\* real_part**2 + imag_part**2: the square of the magnitude the code appends.
magnitude_sq(sig, k) ==
    Rat(real_part(sig, k, 0) * real_part(sig, k, 0)
            + root(Len(sig)) * imag_part(sig, k, 0) * imag_part(sig, k, 0),
        4)

\* Variant of dft that keeps the bins below the Nyquist frequency only.
dft_half(sig) == [k \in 1..(Len(sig) \div 2) |-> magnitude_sq(sig, k - 1)]

\* dft(signal): one entry for k in range(N); an entry holds the square of the
\* magnitude, the magnitude being its non-negative root.
dft(sig) == [k \in 1..Len(sig) |-> magnitude_sq(sig, k - 1)]

\* np.fft.fftfreq(n, 1 / sample_rate)[i]
fftfreq(n, i) ==
    IF i <= (n - 1) \div 2 THEN Rat(i * sample_rate, n) ELSE Rat((i - n) * sample_rate, n)

\* np.argmax: the first index of the largest entry.
argmax(mags) ==
    CHOOSE i \in 1..Len(mags) :
        /\ \A j \in 1..Len(mags) : RatLeq(mags[j], mags[i])
        /\ \A j \in 1..(i - 1) : RatLess(mags[j], mags[i])

InitDft ==
    /\ InitProgIdle
    /\ features1 = <<>>
    /\ features2 = <<>>
    /\ score = NoScore
    /\ samples \in Signals
    /\ spectrum = <<>>
    /\ analysis = NoAnalysis
    /\ audio_signal = NoBuffer
    /\ features = <<>>
    /\ raised = ""
    /\ IdleSongs

\* A call dft(signal).
Transform ==
    /\ op = "init"
    /\ op' = "dft"
    /\ spectrum' = dft(samples)
    /\ raised' = ""
    /\ UNCHANGED <<chord_library, library_file, pc, detected_chords, sequence_file,
                   arg, audio, message, result, listed, scoreVars, samples, analysis,
                   extractVars, songVars>>

\* A call analyze_audio_chunk(audio_data, sample_rate).
Analyze ==
    /\ op = "init"
    /\ op' = "analyze_audio_chunk"
    /\ LET optimal_samples == Min2(chunk_size, Len(samples))
           dft_chunk == Slice(samples, optimal_samples)
           dft_magnitudes == dft(dft_chunk)
       IN  IF Len(dft_chunk) = 0
           THEN /\ raised' = "ZeroDivisionError"
                /\ UNCHANGED analysis
           ELSE /\ raised' = ""
                /\ analysis' =
                       [processed_samples |-> optimal_samples,
                        peak_frequency_hz |-> fftfreq(Len(dft_chunk), argmax(dft_magnitudes) - 1),
                        peak_magnitude |-> dft_magnitudes[argmax(dft_magnitudes)],
                        dft_magnitudes |-> dft_magnitudes]
    /\ UNCHANGED <<chord_library, library_file, pc, detected_chords, sequence_file,
                   arg, audio, message, result, listed, scoreVars, samples, spectrum,
                   extractVars, songVars>>

NextDft == Transform \/ Analyze

SpecDft == InitDft /\ [][NextDft]_vars

-----------------------------------------------------------------------------
(* Extraction specification: extract_features applied to buffers of several *)
(* lengths                                                                   *)

\* Bins at the limits of the band for a buffer of audio_len samples (2 Hz per
\* bin): 80 Hz, 82 Hz, 1498 Hz and 1500 Hz.
EdgeBins == {40, 41, 749, 750}

\* k bins inside the band (200 Hz upward), louder than any bin at its limits.
Bed(k) == [b \in 100..(99 + k) |-> MaxMag + 1]

\* A buffer of 2205 samples has 10 Hz per bin (bins 8 and 9: 80 Hz and 90 Hz),
\* one of 147 samples has 150 Hz per bin (bins 9 and 10: 1350 Hz and 1500 Hz).
ShortBins(n) == IF n = 2205 THEN {8, 9} ELSE IF n = 147 THEN {9, 10} ELSE {}

Buffers ==
    {[len |-> audio_len, mags |-> Bed(k) @@ e] :
        k \in 0..MaxBed, e \in [EdgeBins -> 0..MaxMag]}
    \cup UNION {{[len |-> n, mags |-> e] : e \in [ShortBins(n) -> 0..MaxMag]} :
                   n \in {0, 147, 2205}}

AllZero(buf) == \A b \in DOMAIN buf.mags : buf.mags[b] = 0

InitExtract ==
    /\ InitProgIdle
    /\ features1 = <<>>
    /\ features2 = <<>>
    /\ score = NoScore
    /\ samples = <<>>
    /\ spectrum = <<>>
    /\ analysis = NoAnalysis
    /\ audio_signal \in Buffers
    /\ features = <<>>
    /\ raised = ""
    /\ IdleSongs

\* A call extract_features(audio_signal).
Extract ==
    /\ op = "init"
    /\ op' = "extract_features"
    /\ IF manual_dft_raises(audio_signal.len)
       THEN /\ raised' = "InvalidInput"
            /\ UNCHANGED features
       ELSE /\ raised' = ""
            /\ features' = extract_features_of(audio_signal.len, audio_signal.mags)
    /\ UNCHANGED <<chord_library, library_file, pc, detected_chords, sequence_file,
                   arg, audio, message, result, listed, scoreVars, dftVars, audio_signal,
                   songVars>>

NextExtract == Extract

SpecExtract == InitExtract /\ [][NextExtract]_vars

-----------------------------------------------------------------------------
(* End-to-end specification: a recognizer that starts with no library file *)
(* and is given recordings of the open low E and its octave                *)

ScenarioNames == {"E", "Em"}

\* Recordings whose two peaks are the bins nearest to 82.4 Hz and 164.8 Hz
\* (bins 41 and 82 at 2 Hz per bin), with the magnitudes m1 and m2.
TwoPeaks(m1, m2) == [b \in {41, 82} |-> IF b = 41 THEN m1 ELSE m2]

ScenarioRecordings == {TwoPeaks(10, 10), TwoPeaks(9, 8), TwoPeaks(10, 9), TwoPeaks(10, 0)}

InitScenario ==
    /\ InitProgIdle
    /\ features1 = <<>>
    /\ features2 = <<>>
    /\ score = NoScore
    /\ IdleCalls

NextScenario ==
    \/ \E n \in ScenarioNames, a \in ScenarioRecordings : train_chord(n, a)
    \/ \E a \in ScenarioRecordings : recognize_chord(a)

SpecScenario == InitScenario /\ [][NextScenario]_vars

-----------------------------------------------------------------------------
(* Detector specification: detect_chord_sequence of a recognizer that loaded *)
(* a library of two chords                                                   *)

\* The library file of an earlier session that trained "E" from the two peaks
\* at magnitude 10 each and "Em" from the same peaks at magnitudes 8 and 10.
DetectorFile ==
    File(json_dump(<<[name |-> "E", features |-> extract_features(TwoPeaks(10, 10))],
                     [name |-> "Em", features |-> extract_features(TwoPeaks(8, 10))]>>))

\* What record_audio returns in the detector: recordings that score 1/3 against
\* one of the two chords, one that scores exactly 3/10 and one that scores
\* 17/60 against its best chord, and no audio at all.
DetectorInputs ==
    {TwoPeaks(10, 10), TwoPeaks(8, 10), TwoPeaks(10, 8), TwoPeaks(9, 8), NoAudio}

InitDetect ==
    /\ library_file = DetectorFile
    /\ chord_library = load_library(library_file)
    /\ pc = "menu"
    /\ detected_chords = <<>>
    /\ sequence_file = NoFile
    /\ op = "init"
    /\ arg = None
    /\ audio = NoAudio
    /\ message = ""
    /\ result = None
    /\ listed = <<>>
    /\ features1 = <<>>
    /\ features2 = <<>>
    /\ score = NoScore
    /\ IdleCalls

\* choice == 'd', for a session of at most MaxSequence detections.
detect_choice_d_sequence(rec) ==
    /\ Len(detected_chords) < MaxSequence
    /\ detect_record(rec)

NextDetect ==
    \/ detect_chord_sequence
    \/ \E a \in DetectorInputs : detect_choice_d_sequence(a)
    \/ detect_choice_s
    \/ detect_choice_q
    \/ detect_choice_invalid

SpecDetect == InitDetect /\ [][NextDetect]_vars

-----------------------------------------------------------------------------
(* Recommender specification: a SongRecommender of song_recommender.py, and *)
(* find_songs of main.py on the sequence file of an earlier detector run    *)

\* A song of the database; its artist and youtube fields are only printed.
Song(title, chords) == [song |-> title, chords |-> chords]

\* The chord names used by the songs of the database.
SongChords == {"C", "G", "Am", "F", "D"}

SongsDatabase ==
    <<Song("one", <<"C", "G">>),
      Song("two", <<"C", "G", "Am", "F">>),
      Song("three", <<"G", "Am", "F", "D">>),
      Song("four", <<"G", "G", "D">>)>>

\* load_songs: the list of the database, or the empty list self.songs keeps
\* when the file cannot be read.
LoadedSongs == {SongsDatabase, <<>>}

\* chord_sequence.json as the detector writes it for the detected chords.
SequenceFileOf(chords) ==
    File([total_recorded |-> Len(chords),
          unique_chords |-> unique_in_order(chords, <<>>),
          all_chords |-> chords])

SequenceFiles ==
    {NoFile, SequenceFileOf(<<"C", "G">>), SequenceFileOf(<<"G", "C", "G", "D">>)}

\* set(song['chords'])
chord_set(song) == {song.chords[k] : k \in 1..Len(song.chords)}

\* if song_chords.issubset(self.learned_chords): playable.append(song)
playable_songs(sgs, learned) ==
    SelectSeq(sgs, LAMBDA song : chord_set(song) \subseteq learned)

\* Variant of the test on the missing chords that accepts three of them.
few_missing_up_to_three(missing) ==
    0 < Cardinality(missing) /\ Cardinality(missing) <= 3

\* 0 < len(missing) < 3
few_missing(missing) ==
    0 < Cardinality(missing) /\ Cardinality(missing) < 3

\* missing = song_chords - self.learned_chords;
\* if 0 < len(missing) < 3: almost_playable.append((song, missing))
almost_playable_songs(sgs, learned) ==
    SelectSeq([i \in 1..Len(sgs) |->
                  [song |-> sgs[i], missing |-> chord_set(sgs[i]) \ learned]],
              LAMBDA pair : few_missing(pair.missing))

\* SongRecommender(): the state when the constructor has returned.
InitSongs ==
    /\ chord_library = <<>>
    /\ library_file = NoFile
    /\ pc = "menu"
    /\ detected_chords = <<>>
    /\ sequence_file \in SequenceFiles
    /\ op = "init"
    /\ arg = None
    /\ audio = NoAudio
    /\ message = ""
    /\ result = None
    /\ listed = <<>>
    /\ songs \in LoadedSongs
    /\ learned_chords = {}
    /\ playable = <<>>
    /\ almost_playable = <<>>
    /\ features1 = <<>>
    /\ features2 = <<>>
    /\ score = NoScore
    /\ samples = <<>>
    /\ spectrum = <<>>
    /\ analysis = NoAnalysis
    /\ audio_signal = NoBuffer
    /\ features = <<>>
    /\ raised = ""

add_learned_chord(chord) ==
    /\ op' = "add_learned_chord"
    /\ arg' = chord
    /\ learned_chords' = learned_chords \cup {chord}
    /\ UNCHANGED <<chord_library, library_file, pc, detected_chords, sequence_file,
                   audio, message, result, listed, scoreVars, dftVars, extractVars,
                   raised, songs, playable, almost_playable>>

get_playable_songs ==
    /\ op' = "get_playable_songs"
    /\ arg' = None
    /\ playable' = playable_songs(songs, learned_chords)
    /\ UNCHANGED <<chord_library, library_file, pc, detected_chords, sequence_file,
                   audio, message, result, listed, scoreVars, dftVars, extractVars,
                   raised, songs, learned_chords, almost_playable>>

get_almost_playable_songs ==
    /\ op' = "get_almost_playable_songs"
    /\ arg' = None
    /\ almost_playable' = almost_playable_songs(songs, learned_chords)
    /\ UNCHANGED <<chord_library, library_file, pc, detected_chords, sequence_file,
                   audio, message, result, listed, scoreVars, dftVars, extractVars,
                   raised, songs, learned_chords, playable>>

\* find_songs of main.py: a new recommender on the same database is given the
\* unique chords of the sequence file and asked for both lists.
find_songs ==
    /\ op' = "find_songs"
    /\ arg' = None
    /\ IF ~sequence_file.exists
       THEN /\ message' = "No chord sequence found"
            /\ learned_chords' = {}
            /\ UNCHANGED <<playable, almost_playable>>
       ELSE LET unique_chords == sequence_file.text.unique_chords
                learned == {unique_chords[k] : k \in 1..Len(unique_chords)}
            IN  IF learned = {}
                THEN /\ message' = "No unique chords found"
                     /\ learned_chords' = {}
                     /\ UNCHANGED <<playable, almost_playable>>
                ELSE /\ message' = "SONGS FINDER"
                     /\ learned_chords' = learned
                     /\ playable' = playable_songs(songs, learned)
                     /\ almost_playable' = almost_playable_songs(songs, learned)
    /\ UNCHANGED <<chord_library, library_file, pc, detected_chords, sequence_file,
                   audio, result, listed, scoreVars, dftVars, extractVars,
                   raised, songs>>

NextSongs ==
    \/ \E c \in SongChords : add_learned_chord(c)
    \/ get_playable_songs
    \/ get_almost_playable_songs
    \/ find_songs

SpecSongs == InitSongs /\ [][NextSongs]_vars

-----------------------------------------------------------------------------
(* Properties of compare_features, checked under SpecScore *)

Compared == score # NoScore

PositiveCount(fs) == Cardinality({i \in 1..Min2(compare_n, Len(fs)) : fs[i].mag > 0})

\* C1 (as stated): for every feature list a, compare_features(a, a) equals
\* min(6, len(a)) / 6.0.
C1_SelfScoreIsFull ==
    (Compared /\ features1 = features2)
        => score = Rat(Min2(compare_n, Len(features1)), compare_n)

\* C1 (amended): compare_features(a, a) equals the number of entries among the
\* first 6 of a whose magnitude is positive, divided by 6.0; it is
\* min(6, len(a)) / 6.0 when all of the first 6 magnitudes are positive.
C1_SelfScoreCountsPositive ==
    (Compared /\ features1 = features2)
        => /\ score = Rat(PositiveCount(features1), compare_n)
           /\ (\A i \in 1..Min2(compare_n, Len(features1)) : features1[i].mag > 0)
                  => score = Rat(Min2(compare_n, Len(features1)), compare_n)

C1_Witness ==
    /\ Compared
    /\ features1 = features2
    /\ Len(features1) > compare_n
    /\ features1[Len(features1)].mag = 0
    /\ score = One

\* C2: for all feature lists a and b, compare_features(a, b) lies in [0, 1].
C2_ScoreInUnitInterval ==
    Compared => (RatLeq(Zero, score) /\ RatLeq(score, One))

C2_Witness ==
    /\ Compared
    /\ Len(features1) > compare_n
    /\ Len(features2) > compare_n
    /\ score = One

\* C3: compare_features(a, b) is exactly 0.0 whenever a is empty or b is empty.
C3_EmptyScoresZero ==
    (Compared /\ (features1 = <<>> \/ features2 = <<>>)) => score = Zero

C3_Witness ==
    /\ Compared
    /\ features1 = <<>>
    /\ features2 # <<>>
    /\ score = Zero

\* Best-match contribution of one entry of a against the first 6 entries of b,
\* stated over the set of candidates within tolerance.
Candidates(f1, fs2) ==
    {match(f1, fs2[j]) : j \in {k \in 1..Min2(compare_n, Len(fs2)) :
                                    Abs(f1.freq - fs2[k].freq) < tolerance}}

Contribution(f1, fs2) ==
    IF Candidates(f1, fs2) = {} THEN Zero
    ELSE CHOOSE c \in Candidates(f1, fs2) : \A d \in Candidates(f1, fs2) : RatLeq(d, c)

RECURSIVE SumContributions(_, _, _)
SumContributions(fs1, fs2, n) ==
    IF n = 0 THEN Zero
    ELSE RatAdd(SumContributions(fs1, fs2, n - 1), Contribution(fs1[n], fs2))

\* C4: compare_features(a, b) is the sum of the best-match contributions of the
\* first min(6, len(a)) entries of a, divided by 6 whatever len(a) is, so it is
\* at most min(6, len(a)) / 6; the score is not symmetric in a and b.
C4_FixedDivisorSum ==
    Compared =>
        /\ RatMul(score, Rat(compare_n, 1)) =
               SumContributions(features1, features2, Min2(compare_n, Len(features1)))
        /\ RatLeq(score, Rat(Min2(compare_n, Len(features1)), compare_n))

C4_Witness ==
    /\ Compared
    /\ Len(features1) < Len(features2)
    /\ Len(features1) = 1
    /\ score = Rat(1, compare_n)
    /\ compare_features(features2, features1) # score

\* The entries of a, among its first 6, that have no entry among the first 6
\* of b at less than 50 Hz.
Unmatched(fs1, fs2) ==
    {i \in 1..Min2(compare_n, Len(fs1)) :
        \A j \in 1..Min2(compare_n, Len(fs2)) : Abs(fs1[i].freq - fs2[j].freq) >= 50}

RECURSIVE SumMatched(_, _, _)
SumMatched(fs1, fs2, n) ==
    IF n = 0 THEN Zero
    ELSE RatAdd(SumMatched(fs1, fs2, n - 1),
                IF n \in Unmatched(fs1, fs2) THEN Zero ELSE Contribution(fs1[n], fs2))

\* C20: only the first 6 entries of each list influence the score, and
\* matching is strict on tolerance: compare_features(a, b) equals
\* compare_features(a[:6], b[:6]), and an entry of a whose frequency differs by
\* 50 Hz or more from every one of the first 6 entries of b contributes
\* exactly 0.0 to the sum the score is made of.
C20_FirstSixStrictTolerance ==
    Compared =>
        /\ score = compare_features(Slice(features1, 6), Slice(features2, 6))
        /\ \A i \in Unmatched(features1, features2) :
               inner_loop(features1[i], Slice(features2, 6), 1, Zero) = Zero
        /\ RatMul(score, Rat(6, 1)) =
               SumMatched(features1, features2, Min2(6, Len(features1)))

C20_Witness ==
    /\ Compared
    /\ features1 = <<Feature(100, MaxMag)>>
    /\ Len(features2) = 7
    /\ features2[1].freq = 150
    /\ features2[7] = Feature(100, MaxMag)
    /\ score = Rat(2, 15)

-----------------------------------------------------------------------------
(* Properties of the recognizer, checked under Spec *)

\* The scores of the query against every entry, their maximum, and the first
\* entry in library order that attains it.
EntryScore(query, lib, i) == compare_features(query, lib[i].features)

MaxScore(query, lib) ==
    LET scores == {EntryScore(query, lib, i) : i \in 1..Len(lib)}
    IN  CHOOSE m \in scores : \A x \in scores : RatLeq(x, m)

BestEntries(query, lib) ==
    {i \in 1..Len(lib) : EntryScore(query, lib, i) = MaxScore(query, lib)}

FirstBestName(query, lib) ==
    lib[CHOOSE i \in BestEntries(query, lib) : \A j \in BestEntries(query, lib) : i <= j].name

Recognized ==
    /\ op = "recognize_chord"
    /\ chord_library # <<>>
    /\ audio # NoAudio

C7_FailedTrainingChangesNothing ==
    [][(op' = "train_chord" /\ (audio' = NoAudio \/ extract_features(audio') = <<>>))
           => /\ chord_library' = chord_library
              /\ library_file' = library_file
              /\ pc' = "menu"]_vars

C7_Witness ==
    /\ op = "train_chord"
    /\ audio # NoAudio
    /\ \E b \in PeakBins : audio[b] > 0
    /\ extract_features(audio) = <<>>
    /\ chord_library # <<>>
    /\ library_file.exists

\* C8: training a chord name that is already in the library replaces its
\* stored signature with exactly the newly extracted feature list, leaves
\* every other entry unchanged and keeps the number of entries.
C8_RetrainReplaces ==
    [][(/\ op' = "train_chord"
        /\ arg' \in Names(chord_library)
        /\ audio' # NoAudio
        /\ extract_features(audio') # <<>>)
           => /\ Len(chord_library') = Len(chord_library)
              /\ Names(chord_library') = Names(chord_library)
              /\ Lookup(chord_library', arg') = extract_features(audio')
              /\ \A n \in Names(chord_library) \ {arg'} :
                     Lookup(chord_library', n) = Lookup(chord_library, n)]_vars

C8_Witness ==
    /\ op = "train_chord"
    /\ message = "Library saved"
    /\ Len(chord_library) = 2
    /\ chord_library[1].name = arg
    /\ chord_library[1].features # chord_library[2].features
    /\ Len(chord_library[1].features) = 1

\* C9: after every mutation of the in-memory library by train_chord,
\* save_library runs before the operation ends, so between operations the
\* persisted library equals the in-memory library, also when plotting fails.
C9_FileMatchesLibrary ==
    json_dump(chord_library) = (IF library_file.exists THEN library_file.text ELSE <<>>)

\* C10: the set of chord names in the library never loses a name.
C10_NamesNeverLost ==
    [][Names(chord_library) \subseteq Names(chord_library')]_vars

C10_Witness ==
    /\ Cardinality(Names(chord_library)) = 2
    /\ op = "train_chord"
    /\ message = "Library saved"
    /\ chord_library[1].name = arg

-----------------------------------------------------------------------------
(* Properties of the library file and of the listing, checked under Spec *)

\* C11: loading the library never aborts construction of the recognizer: when
\* the library file does not exist, or exists but is unreadable or corrupt, the
\* recognizer starts at the menu with an empty in-memory library.
C11_LoadNeverAborts ==
    (op = "init" /\ (~library_file.exists \/ ~library_file.parses))
        => (pc = "menu" /\ chord_library = <<>>)

\* Position of a chord name in the lexicographic order of the names.
name_rank(n) == IF n = "Am" THEN 1 ELSE IF n = "C" THEN 2 ELSE 3

NameSeq(lib) == [i \in 1..Len(lib) |-> lib[i].name]

\* C13 (as stated): enumerating the library's chord names yields them in
\* lexicographic order, whatever the order in which the chords were trained
\* or loaded.
C13_ListedLexicographic ==
    op = "list_chords" =>
        \A i, j \in 1..Len(listed) : i < j => name_rank(listed[i]) < name_rank(listed[j])

\* C13 (amended): enumerating the library's chord names yields every name
\* once, in the order in which the names entered the library: a step either
\* keeps that order (retraining a name does not move it) or adds the trained
\* name at the end, and list_chords prints the names in that order.
C13_ListedInInsertionOrder ==
    [][(\/ NameSeq(chord_library') = NameSeq(chord_library)
        \/ /\ op' = "train_chord"
           /\ arg' \notin Names(chord_library)
           /\ NameSeq(chord_library') = Append(NameSeq(chord_library), arg'))
       /\ (op' = "list_chords" =>
               /\ listed' = NameSeq(chord_library)
               /\ Cardinality(Names(chord_library)) = Len(listed'))]_vars

C13_Witness ==
    /\ op = "list_chords"
    /\ listed = <<"C", "Am">>
    /\ library_file.exists

\* What the matching loop and the confidence test give for a query and a library.
Outcome(query, lib) ==
    LET best == match_loop(query, lib, 1, None, Zero)
    IN  [name |-> IF RatLess(threshold, best.best_score) THEN best.best_match ELSE None,
         score |-> best.best_score]

\* The libraries that hold the same entries as lib in another order.
Perms(n) == {p \in [1..n -> 1..n] : \A i, j \in 1..n : p[i] = p[j] => i = j}

Reorderings(lib) == {[i \in 1..Len(lib) |-> lib[p[i]]] : p \in Perms(Len(lib))}

Matched ==
    /\ op \in {"recognize_chord", "detect"}
    /\ chord_library # <<>>
    /\ audio # NoAudio

\* C19 (as stated): the recognition result does not depend on the insertion
\* order of the library: for two libraries holding the same name-to-signature
\* mapping built in different training orders, the same query yields the same
\* chord name and the same score, also when two entries tie for the maximum.
C19_OrderIndependent ==
    Matched =>
        \A lib2 \in Reorderings(chord_library) :
            /\ Outcome(extract_features(audio), lib2).name = result
            /\ Outcome(extract_features(audio), lib2).score =
                   Outcome(extract_features(audio), chord_library).score

\* C19 (amended): for two libraries holding the same name-to-signature mapping
\* built in different training orders, the same query yields the same score,
\* and the same chord name unless two or more entries tie for a maximum score
\* above 0.3: then each library yields the tied entry that it holds first.
C19_OrderDecidesTiesOnly ==
    Matched =>
        LET query == extract_features(audio)
        IN  \A lib2 \in Reorderings(chord_library) :
                /\ Outcome(query, lib2).score = MaxScore(query, chord_library)
                /\ Cardinality(BestEntries(query, chord_library)) = 1
                       => Outcome(query, lib2).name = result
                /\ RatLess(threshold, MaxScore(query, chord_library))
                       => Outcome(query, lib2).name = FirstBestName(query, lib2)
                /\ ~RatLess(threshold, MaxScore(query, chord_library))
                       => Outcome(query, lib2).name = None

C19_Witness ==
    /\ Matched
    /\ Len(chord_library) = 2
    /\ result = chord_library[1].name
    /\ Outcome(extract_features(audio), <<chord_library[2], chord_library[1]>>).name
           = chord_library[2].name

ReadOnlyOps ==
    {"recognize_chord", "list_chords", "detect_chord_sequence",
     "detect", "detect_save", "detect_quit", "detect_invalid"}

\* C22: recognition and enumeration are read-only on the library:
\* recognize_chord, detect_chord_sequence (every command of its loop included)
\* and list_chords leave the in-memory chord library, names and signatures,
\* and the persisted library file unchanged, whatever the recording and
\* whatever the result.
C22_ReadOnlyOnLibrary ==
    [][op' \in ReadOnlyOps =>
          (chord_library' = chord_library /\ library_file' = library_file)]_vars

\* The detector has just detected a chord with a recording that is not the
\* stored signature of that chord.
C22_Witness ==
    /\ op = "detect"
    /\ result # None
    /\ detected_chords = <<result>>
    /\ library_file = File(json_dump(chord_library))
    /\ Lookup(chord_library, result) # extract_features(audio)

-----------------------------------------------------------------------------
(* Properties of the chord-sequence detector, checked under SpecDetect *)

\* The best score of the recording rec against the loaded library.
DetectionScore(rec) == MaxScore(extract_features(rec), chord_library)

\* The position of the first detection of name n in the sequence chords.
FirstDetection(chords, n) ==
    CHOOSE k \in 1..Len(chords) : chords[k] = n /\ \A m \in 1..(k - 1) : chords[m] # n

\* u holds each name of chords once, in the order of first detection.
EachOnceInFirstOrder(u, chords) ==
    /\ {u[i] : i \in 1..Len(u)} = {chords[k] : k \in 1..Len(chords)}
    /\ \A i \in 1..Len(u) : \A j \in 1..Len(u) :
           i < j => /\ u[i] # u[j]
                    /\ FirstDetection(chords, u[i]) < FirstDetection(chords, u[j])

\* C23: in the chord-sequence detector, a chord name is appended to the
\* detected sequence exactly when the best score of that detection is strictly
\* greater than 0.3 (a score of exactly 0.3, a failed recording, or an invalid
\* command appends nothing); the sequence starts empty, and on save
\* total_recorded equals the number of detections appended and unique_chords
\* contains each detected name once, in order of first detection.
C23_AppendsAboveThresholdOnly ==
    [][/\ (op' = "detect_chord_sequence") => (detected_chords' = <<>>)
       /\ (op' = "detect") =>
              IF audio' # NoAudio /\ RatLess(threshold, DetectionScore(audio'))
              THEN detected_chords' =
                       Append(detected_chords,
                              FirstBestName(extract_features(audio'), chord_library))
              ELSE detected_chords' = detected_chords
       /\ (op' = "detect_invalid") => (detected_chords' = detected_chords)
       /\ (op' = "detect_save" /\ detected_chords # <<>>) =>
              /\ sequence_file'.exists
              /\ sequence_file'.text.total_recorded = Len(detected_chords)
              /\ sequence_file'.text.all_chords = detected_chords
              /\ EachOnceInFirstOrder(sequence_file'.text.unique_chords, detected_chords)
      ]_vars

\* A recording has just scored exactly 0.3 and was not appended to the three
\* chords detected so far, after an earlier run of the detector saved a
\* sequence in which "Em" was detected twice.
C23_Witness ==
    /\ op = "detect"
    /\ audio = TwoPeaks(10, 8)
    /\ DetectionScore(audio) = threshold
    /\ result = None
    /\ detected_chords = <<"E", "Em", "E">>
    /\ sequence_file = File([total_recorded |-> 3,
                             unique_chords |-> <<"Em", "E">>,
                             all_chords |-> <<"Em", "E", "Em">>])

-----------------------------------------------------------------------------
(* Properties of the song recommender, checked under SpecSongs *)

\* Every chord of the song is in the set learned.
AllLearned(song, learned) ==
    \A k \in 1..Len(song.chords) : song.chords[k] \in learned

\* The number of chord names of the song that are not in the set learned.
Unlearned(song, learned) ==
    Cardinality({c \in SongChords :
                    /\ c \notin learned
                    /\ \E k \in 1..Len(song.chords) : song.chords[k] = c})

IsPlayable(song, list) == \E k \in 1..Len(list) : list[k] = song

IsAlmostPlayable(song, list) == \E k \in 1..Len(list) : list[k].song = song

\* Both lists were returned for the learned chords of the new state: by
\* find_songs, or by the two queries one right after the other.
BothListsReturned ==
    \/ (op' = "find_songs" /\ message' = "SONGS FINDER")
    \/ (op = "get_playable_songs" /\ op' = "get_almost_playable_songs")
    \/ (op = "get_almost_playable_songs" /\ op' = "get_playable_songs")

\* C24: in the song recommender, for any set of learned chords: a song is
\* playable iff every one of its chords is learned, it is almost playable iff
\* the number of its unlearned chords is 1 or 2, no song is in both results,
\* and after any further add_learned_chord a playable song stays playable and
\* no song's missing-chord count increases.
C24_PlayableAndAlmostPlayable ==
    [][/\ (op' = "get_playable_songs" \/ BothListsReturned) =>
              \A i \in 1..Len(songs') :
                  IsPlayable(songs'[i], playable')
                      <=> AllLearned(songs'[i], learned_chords')
       /\ (op' = "get_almost_playable_songs" \/ BothListsReturned) =>
              \A i \in 1..Len(songs') :
                  IsAlmostPlayable(songs'[i], almost_playable')
                      <=> Unlearned(songs'[i], learned_chords') \in {1, 2}
       /\ BothListsReturned =>
              \A i \in 1..Len(songs') :
                  ~(/\ IsPlayable(songs'[i], playable')
                    /\ IsAlmostPlayable(songs'[i], almost_playable'))
       /\ (op' = "add_learned_chord") =>
              \A i \in 1..Len(songs) :
                  /\ AllLearned(songs[i], learned_chords)
                         => AllLearned(songs'[i], learned_chords')
                  /\ Unlearned(songs'[i], learned_chords')
                         <= Unlearned(songs[i], learned_chords)
      ]_vars

\* find_songs has just answered for the learned chords C and G: "one" is
\* playable, "two" and "four" are almost playable, and "three", with three
\* chords missing, is in neither list.
C24_Witness ==
    /\ op = "find_songs"
    /\ songs = SongsDatabase
    /\ learned_chords = {"C", "G"}
    /\ playable = <<songs[1]>>
    /\ almost_playable = <<[song |-> songs[2], missing |-> {"Am", "F"}],
                           [song |-> songs[4], missing |-> {"D"}]>>
    /\ Unlearned(songs[3], learned_chords) = 3

-----------------------------------------------------------------------------
(* Properties of save_library and load_library, checked under SpecLibrary *)

\* The (frequency, magnitude) pairs of a signature, whatever holds them.
Pairs(fs) == [j \in 1..Len(fs) |-> <<fs[j].freq, fs[j].mag>>]

SameMapping(lib1, lib2) ==
    /\ Names(lib1) = Names(lib2)
    /\ Len(lib1) = Len(lib2)
    /\ \A n \in Names(lib1) : Pairs(Lookup(lib1, n)) = Pairs(Lookup(lib2, n))

-----------------------------------------------------------------------------
(* Properties of dft, checked under SpecDft *)

C15_EmptyBufferRejected ==
    (op \in {"dft", "analyze_audio_chunk"} /\ Len(samples) = 0) => raised = "InvalidInput"

-----------------------------------------------------------------------------
(* Properties of extract_features, checked under SpecExtract *)

Extracted == op = "extract_features" /\ raised = ""

\* C16: for every input audio, the list returned by extract_features has at
\* most 10 entries and every entry's frequency f satisfies 80 < f < 1500.
C16_AtMostTenInBand ==
    Extracted =>
        /\ Len(features) <= 10
        /\ \A i \in 1..Len(features) : 80 < features[i].freq /\ features[i].freq < 1500

C16_Witness ==
    /\ Extracted
    /\ audio_signal.len = audio_len
    /\ audio_signal.mags[40] = MaxMag
    /\ audio_signal.mags[750] = MaxMag
    /\ audio_signal.mags[41] = MaxMag
    /\ Len(features) = 9
    /\ features[9].freq = 82

\* C17: extract_features on an empty buffer or on an all-zero buffer of any
\* length returns an empty feature list and does not raise.
C17_SilentGivesNoFeatures ==
    (op = "extract_features" /\ (audio_signal.len = 0 \/ AllZero(audio_signal)))
        => (raised = "" /\ features = <<>>)

\* C21: the list returned by extract_features is ordered by magnitude,
\* non-increasing from index 0 (index 0 is the strongest accepted peak), and no
\* two entries have the same frequency bin.
C21_DescendingDistinctBins ==
    Extracted =>
        \A i \in 1..Len(features) : \A j \in 1..Len(features) :
            i < j => /\ features[i].mag >= features[j].mag
                     /\ features[i].freq # features[j].freq

\* Three loud bins are returned out of bin order: 200 Hz, then 1498 Hz, then
\* 82 Hz, each weaker than the one before.
C21_Witness ==
    /\ Extracted
    /\ audio_signal.len = audio_len
    /\ Len(features) = 3
    /\ features[1] = Feature(200, MaxMag + 1)
    /\ features[2] = Feature(1498, MaxMag)
    /\ features[3] = Feature(82, MaxMag - 1)

-----------------------------------------------------------------------------
(* The end-to-end scenario, checked under SpecScenario *)

\* The library holds E alone, trained from the two peaks at magnitude 10 each,
\* and the last operation recognized the same two peaks at magnitudes 9 and 8.
ScenarioRecognized ==
    /\ op = "recognize_chord"
    /\ audio = TwoPeaks(9, 8)
    /\ chord_library = <<[name |-> "E", features |-> extract_features(TwoPeaks(10, 10))]>>

ScenarioScore == compare_features(extract_features(audio), Lookup(chord_library, "E"))

====
